---- MODULE Spec2Model ----
(***************************************************************************)
(* Model of src/update-task-dns.js: the Lambda handler that, on an ECS     *)
(* task-state-change event, resolves the task's public IP and upserts a    *)
(* Route53 A record.  One invocation is modelled.  Every `await` on a      *)
(* remote call is a point where the handler is suspended: an action is the *)
(* code that runs from one such point to the next.  The remote services    *)
(* are the environment: each outstanding call is answered with a response  *)
(* drawn from a small set of response shapes, or with a failure.           *)
(*                                                                         *)
(* JavaScript values: an absent string-valued property is the string       *)
(* Undefined; an absent object-valued property is a field missing from the *)
(* record; a null response is the record NullData.                         *)
(***************************************************************************)
EXTENDS Naturals, Sequences, FiniteSets

VARIABLES
    task,           \* event.detail, read-only
    pc,             \* the await the handler is suspended at
    outcome,        \* "running", "skipped", "updated" or "failed"
    error,          \* the exception that ended the invocation, or "none"
    trace,          \* remote calls issued and responses received, in order
    pending,        \* remote operations issued and not yet answered
    tags,           \* const tags (line 24); the empty hash before it is bound
    eniId,          \* const eniId (line 36)
    taskPublicIp,   \* var taskPublicIp (lines 40, 46)
    console         \* console.log lines, by message

vars == <<task, pc, outcome, error, trace, pending, tags, eniId, taskPublicIp, console>>

---------------------------------------------------------------------------
(* Bounds of the model *)

MaxTags == 2
MaxAtt == 2
MaxDet == 2

---------------------------------------------------------------------------
(* JavaScript values *)

Undefined == "undefined"

Falsy(v) == v = Undefined \/ v = ""

Truthy(v) == ~Falsy(v)

NullData == [null |-> TRUE]

IsNull(data) == "null" \in DOMAIN data

Has(obj, f) == f \in DOMAIN obj

\* arr[0]
HasHead(arr) == Len(arr) > 0

SeqsUpTo(S, n) == UNION {[1..k -> S] : k \in 0..n}

---------------------------------------------------------------------------
(* The event *)

\* clusterArn, as the pieces clusterArn.split(':cluster/') yields
ClusterArn == <<"arn:aws:ecs:eu-west-1:111122223333", "prod">>

TaskArn == "arn:aws:ecs:eu-west-1:111122223333:task/prod/0a1b"

\* task.group, as the pieces group.split(":") yields
Group == <<"service", "web">>

ContainerInstanceArns == {Undefined, "arn:aws:ecs:eu-west-1:111122223333:container-instance/prod/9f"}

DetailEntries ==
    {[name |-> "networkInterfaceId", value |-> "eni-1"],
     [name |-> "networkInterfaceId", value |-> "eni-2"],
     [name |-> "subnetId", value |-> "subnet-1"]}

AttachmentTypes == {"eni", "elastic-inference"}

Attachments == [type : AttachmentTypes, details : SeqsUpTo(DetailEntries, MaxDet)]

AttachmentLists == SeqsUpTo(Attachments, MaxAtt)

\* The attachment lists the handler is run on: none (EC2 launch type), one eni
\* attachment carrying its id (Fargate), a first eni attachment without the id
\* followed by one with it, and a non-eni attachment.
HandlerAttachments ==
    {<<>>,
     <<[type |-> "eni",
        details |-> <<[name |-> "subnetId", value |-> "subnet-1"],
                      [name |-> "networkInterfaceId", value |-> "eni-1"]>>]>>,
     <<[type |-> "eni", details |-> <<[name |-> "subnetId", value |-> "subnet-1"]>>],
       [type |-> "eni", details |-> <<[name |-> "networkInterfaceId", value |-> "eni-2"]>>]>>,
     <<[type |-> "elastic-inference", details |-> <<>>]>>}

Tasks(attLists) ==
    [clusterArn : {ClusterArn}, taskArn : {TaskArn}, group : {Group},
     attachments : attLists, containerInstanceArn : ContainerInstanceArns]

---------------------------------------------------------------------------
(* Remote responses *)

TagKeys == {"domain", "hostedZoneId", "Name"}

TagValues == {"", "app.example.com", "Z0123456789"}

TagLists == SeqsUpTo([key : TagKeys, value : TagValues], MaxTags)

PublicIps == {"198.51.100.7"}

\* data.NetworkInterfaces[0].PrivateIpAddresses[0] of describeNetworkInterfaces
EniResponses ==
    {[PrivateIpAddress |-> "10.0.0.5"]}
    \cup {[PrivateIpAddress |-> "10.0.0.5", Association |-> [PublicIp |-> ip]] :
            ip \in PublicIps \cup {Undefined}}

ContainerResponses ==
    {NullData}
    \cup {[containerInstances |-> <<>>]}
    \cup {[containerInstances |-> <<[ec2InstanceId |-> id]>>] : id \in {Undefined, "i-0abc"}}

InstanceResponses ==
    {NullData}
    \cup {[Reservations |-> <<>>]}
    \cup {[Reservations |-> <<[Instances |-> <<[PublicIpAddress |-> ip]>>]>>] :
            ip \in PublicIps \cup {Undefined}}

Call(op, params) == [kind |-> "call", op |-> op, data |-> params]

Ok(op, data) == [kind |-> "ok", op |-> op, data |-> data]

Fail(op) == [kind |-> "fail", op |-> op, data |-> [error |-> "ApiError"]]

---------------------------------------------------------------------------
(* Pure functions of the source *)

\* _.head(arr)
JsHead(arr) == IF Len(arr) = 0 THEN Undefined ELSE arr[1]

EmptyHash == [k \in TagKeys |-> Undefined]

RECURSIVE ReduceTags(_, _)
ReduceTags(list, hash) ==
    IF list = <<>> THEN hash
    ELSE ReduceTags(Tail(list), [hash EXCEPT ![Head(list).key] = Head(list).value])

\* the value fetchTags resolves to, given the listTagsForResource response
fetchTags(response) == ReduceTags(response.tags, EmptyHash)

IsEni(attachment) == attachment.type = "eni"

IsNetworkInterfaceId(details) == details.name = "networkInterfaceId"

\* a variant that skips eni attachments without the id (the ids compacted
\* before the outer head)
getEniId_FirstDefined(t) ==
    LET withId(a) == a.type = "eni"
                     /\ \E j \in 1..Len(a.details) : a.details[j].name = "networkInterfaceId"
        enis == SelectSeq(t.attachments, withId)
    IN  IF Len(enis) = 0 THEN Undefined
        ELSE LET d == enis[1].details
                 first == CHOOSE j \in 1..Len(d) :
                            /\ d[j].name = "networkInterfaceId"
                            /\ \A k \in 1..(j - 1) : d[k].name # "networkInterfaceId"
             IN  d[first].value

\* the inner chain: filter the details, map to the values, head
EniDetailValue(eniAttachment) ==
    LET named == SelectSeq(eniAttachment.details, IsNetworkInterfaceId)
    IN  JsHead([i \in 1..Len(named) |-> named[i].value])

getEniId(t) ==
    LET enis == SelectSeq(t.attachments, IsEni)
    IN  JsHead([i \in 1..Len(enis) |-> EniDetailValue(enis[i])])

\* clusterArn.split(':cluster/')[1]
ClusterName(t) == t.clusterArn[2]

TTL == 180

\* a variant with the record name and the record value exchanged
createRecordSet_Swapped(domain, publicIp) ==
    [Action |-> "UPSERT",
     ResourceRecordSet |->
        [Name |-> publicIp,
         Type |-> "A",
         TTL |-> TTL,
         ResourceRecords |-> <<[Value |-> domain]>>]]

createRecordSet(domain, publicIp) ==
    [Action |-> "UPSERT",
     ResourceRecordSet |->
        [Name |-> domain,
         Type |-> "A",
         TTL |-> TTL,
         ResourceRecords |-> <<[Value |-> publicIp]>>]]

\* the param updateDnsRecord hands to route53.changeResourceRecordSets
updateDnsParam(clusterName, hostedZoneId, changeRecordSet) ==
    [ChangeBatch |->
        [Comment |-> <<"Auto generated Record for ECS cluster", clusterName>>,
         Changes |-> <<changeRecordSet>>],
     HostedZoneId |-> hostedZoneId]

\* a variant that skips only when both tags are missing
TagsMissing_Both(domain, hostedZoneId) == Falsy(domain) /\ Falsy(hostedZoneId)

\* if (!domain || !hostedZoneId)
TagsMissing(domain, hostedZoneId) == Falsy(domain) \/ Falsy(hostedZoneId)

\* a variant that tests containerInstanceArn first
LookupPath_ContainerFirst(eni, containerInstanceArn) ==
    IF Truthy(containerInstanceArn) THEN "container"
    ELSE IF Truthy(eni) THEN "eni"
    ELSE "none"

\* if (eniId) ... else if (containerInstanceArn) ... else ...
LookupPath(eni, containerInstanceArn) ==
    IF Truthy(eni) THEN "eni"
    ELSE IF Truthy(containerInstanceArn) THEN "container"
    ELSE "none"

---------------------------------------------------------------------------
(* Steps of the handler *)

\* the invocation ends: a normal return, or an exception that propagates
End(tr, pend, out, err, log) ==
    /\ trace' = tr
    /\ pending' = pend
    /\ pc' = "done"
    /\ outcome' = out
    /\ error' = err
    /\ console' = log

\* the handler issues a remote call and is suspended on it
Await(tr, pend, op, params, at, log) ==
    /\ trace' = Append(tr, Call(op, params))
    /\ pending' = pend \cup {op}
    /\ pc' = at
    /\ console' = log
    /\ UNCHANGED <<outcome, error>>

\* lines 57-63: the record set is built and submitted
SubmitRecord(tr, pend, ip, log) ==
    /\ taskPublicIp' = ip
    /\ Await(tr, pend, "changeResourceRecordSets",
             updateDnsParam(ClusterName(task), tags.hostedZoneId,
                            createRecordSet(tags.domain, ip)),
             "updateDnsRecord",
             log \o <<"Fetched taskPublicIp", "task public-id">>)

\* a variant without the await of line 46: the record is submitted while
\* describeContainerInstances is still outstanding
StartContainerLookup_NoAwait(tr, pend, log) ==
    /\ trace' = tr \o <<Call("describeContainerInstances",
                              [containerInstances |-> <<task.containerInstanceArn>>,
                               cluster |-> task.clusterArn]),
                         Call("changeResourceRecordSets",
                              updateDnsParam(ClusterName(task), tags'.hostedZoneId,
                                             createRecordSet(tags'.domain, Undefined)))>>
    /\ pending' = pend \cup {"describeContainerInstances", "changeResourceRecordSets"}
    /\ pc' = "updateDnsRecord"
    /\ console' = log
    /\ UNCHANGED <<outcome, error>>

\* lines 45-49 and 128: the EC2 path starts
StartContainerLookup(tr, pend, log) ==
    Await(tr, pend, "describeContainerInstances",
          [containerInstances |-> <<task.containerInstanceArn>>,
           cluster |-> task.clusterArn],
          "fetchContainerPublicIp",
          log \o <<"Fetched containerInstanceArn">>)

Init ==
    /\ task \in Tasks(HandlerAttachments)
    /\ pc = "init"
    /\ outcome = "running"
    /\ error = "none"
    /\ trace = <<>>
    /\ pending = {}
    /\ tags = EmptyHash
    /\ eniId = Undefined
    /\ taskPublicIp = Undefined
    /\ console = <<>>

\* lines 14-24 and 67-70
Invoke ==
    /\ pc = "init"
    /\ Await(trace, pending, "listTagsForResource", [resourceArn |-> task.taskArn],
             "fetchTags", <<"Received event", "clusterArn, taskArn">>)
    /\ UNCHANGED <<task, tags, eniId, taskPublicIp>>

\* lines 71-75 and 25-56: the tags arrive
fetchTagsOk ==
    /\ pc = "fetchTags"
    /\ "listTagsForResource" \in pending
    /\ \E list \in TagLists :
        LET response == [tags |-> list]
            hash == fetchTags(response)
            tr == Append(trace, Ok("listTagsForResource", response))
            pend == pending \ {"listTagsForResource"}
            log == console \o <<"cluster, domain, hostedZone">>
            eni == getEniId(task)
            path == LookupPath(eni, task.containerInstanceArn)
        IN  /\ tags' = hash
            /\ IF TagsMissing(hash.domain, hash.hostedZoneId)
               THEN /\ End(tr, pend, "skipped", "none", log \o <<"Skipping">>)
                    /\ UNCHANGED eniId
               ELSE /\ eniId' = eni
                    /\ IF path = "eni"
                       THEN Await(tr, pend, "describeNetworkInterfaces",
                                  [NetworkInterfaceIds |-> <<eni>>],
                                  "fetchEniPublicIp", log \o <<"Fetched eniId">>)
                       ELSE IF path = "container"
                       THEN StartContainerLookup(tr, pend, log)
                       ELSE End(tr, pend, "skipped", "none",
                                log \o <<"Could not fetch public IP for this task">>)
    /\ UNCHANGED <<task, taskPublicIp>>

\* a variant that answers a failure by issuing the same call once more
Rejected_RetryOnce(at, op) ==
    /\ pc = at
    /\ op \in pending
    /\ LET issued == {i \in 1..Len(trace) : trace[i].kind = "call" /\ trace[i].op = op}
           again == CHOOSE i \in issued : TRUE
       IN  IF Cardinality(issued) < 2
           THEN /\ trace' = trace \o <<Fail(op), trace[again]>>
                /\ UNCHANGED <<pending, pc, outcome, error, console>>
           ELSE End(Append(trace, Fail(op)), pending \ {op}, "failed", "ApiError", console)
    /\ UNCHANGED <<task, tags, eniId, taskPublicIp>>

\* a rejected promise is awaited without try/catch: the exception leaves handler
Rejected(at, op) ==
    /\ pc = at
    /\ op \in pending
    /\ End(Append(trace, Fail(op)), pending \ {op}, "failed", "ApiError", console)
    /\ UNCHANGED <<task, tags, eniId, taskPublicIp>>

fetchTagsFail == Rejected("fetchTags", "listTagsForResource")

\* lines 119 and 41, then 57-63
fetchEniPublicIpOk ==
    /\ pc = "fetchEniPublicIp"
    /\ "describeNetworkInterfaces" \in pending
    /\ \E address \in EniResponses :
        LET data == [NetworkInterfaces |-> <<[PrivateIpAddresses |-> <<address>>]>>]
            tr == Append(trace, Ok("describeNetworkInterfaces", data))
            pend == pending \ {"describeNetworkInterfaces"}
        IN  IF ~Has(address, "Association")
            THEN \* Association is undefined: reading .PublicIp of it throws
                 /\ End(tr, pend, "failed", "TypeError", console)
                 /\ UNCHANGED taskPublicIp
            ELSE SubmitRecord(tr, pend, address.Association.PublicIp, console)
    /\ UNCHANGED <<task, tags, eniId>>

fetchEniPublicIpFail == Rejected("fetchEniPublicIp", "describeNetworkInterfaces")

\* lines 129-139 and 99-102
describeContainerInstancesOk ==
    /\ pc = "fetchContainerPublicIp"
    /\ "describeContainerInstances" \in pending
    /\ \E data \in ContainerResponses :
        LET tr == Append(trace, Ok("describeContainerInstances", data))
            pend == pending \ {"describeContainerInstances"}
        IN  IF IsNull(data)
            THEN \* line 130: the template reads the undeclared name cluster
                 End(tr, pend, "failed", "ReferenceError", console)
            ELSE IF ~HasHead(data.containerInstances)
            THEN \* line 133: containerInstances[0] is undefined
                 End(tr, pend, "failed", "TypeError", console)
            ELSE LET ec2Id == data.containerInstances[1].ec2InstanceId
                     log == console \o <<"Fetched ec2InstanceId">>
                 IN  IF Falsy(ec2Id)
                     THEN \* line 136: the template reads the undeclared name instance
                          End(tr, pend, "failed", "ReferenceError", log)
                     ELSE Await(tr, pend, "describeInstances", [InstanceIds |-> <<ec2Id>>],
                                "fetchEC2PublicIp", log)
    /\ UNCHANGED <<task, tags, eniId, taskPublicIp>>

describeContainerInstancesFail == Rejected("fetchContainerPublicIp", "describeContainerInstances")

\* lines 103-110, 140-144 and 50, then 57-63
fetchEC2PublicIpOk ==
    /\ pc = "fetchEC2PublicIp"
    /\ "describeInstances" \in pending
    /\ \E data \in InstanceResponses :
        LET tr == Append(trace, Ok("describeInstances", data))
            pend == pending \ {"describeInstances"}
        IN  IF IsNull(data)
            THEN \* fetchEC2PublicIp returns undefined, and so does fetchContainerPublicIp
                 SubmitRecord(tr, pend, Undefined,
                              console \o <<"Error describing Instance",
                                           "Could not fetch public IP for instance">>)
            ELSE IF ~HasHead(data.Reservations)
            THEN \* line 108: Reservations[0] is undefined
                 /\ End(tr, pend, "failed", "TypeError",
                        console \o <<"Received data from describe Instances">>)
                 /\ UNCHANGED taskPublicIp
            ELSE LET publicIp == data.Reservations[1].Instances[1].PublicIpAddress
                     log == console \o <<"Received data from describe Instances",
                                         "Got Public Ip Address">>
                 IN  IF Falsy(publicIp)
                     THEN \* line 142 returns undefined to the handler, which goes on
                          SubmitRecord(tr, pend, Undefined,
                                       log \o <<"Could not fetch public IP for instance">>)
                     ELSE SubmitRecord(tr, pend, publicIp, log)
    /\ UNCHANGED <<task, tags, eniId>>

\* a variant that catches the failure and goes on without an address
fetchEC2PublicIpFail_Caught ==
    /\ pc = "fetchEC2PublicIp"
    /\ "describeInstances" \in pending
    /\ SubmitRecord(Append(trace, Fail("describeInstances")),
                    pending \ {"describeInstances"}, Undefined, console)
    /\ UNCHANGED <<task, tags, eniId>>

fetchEC2PublicIpFail == Rejected("fetchEC2PublicIp", "describeInstances")

\* lines 174 and 64
updateDnsRecordOk ==
    /\ pc = "updateDnsRecord"
    /\ "changeResourceRecordSets" \in pending
    /\ End(Append(trace, Ok("changeResourceRecordSets", [ChangeInfo |-> "PENDING"])),
           pending \ {"changeResourceRecordSets"}, "updated", "none",
           console \o <<"updateResult", "DNS record update finished">>)
    /\ UNCHANGED <<task, tags, eniId, taskPublicIp>>

\* a variant that submits the record a second time when the first attempt fails
updateDnsRecordFail_Retry ==
    /\ pc = "updateDnsRecord"
    /\ "changeResourceRecordSets" \in pending
    /\ LET issued == {i \in 1..Len(trace) :
                        trace[i].kind = "call" /\ trace[i].op = "changeResourceRecordSets"}
           again == CHOOSE i \in issued : TRUE
       IN  IF Cardinality(issued) < 2
           THEN /\ trace' = trace \o <<Fail("changeResourceRecordSets"), trace[again]>>
                /\ UNCHANGED <<pending, pc, outcome, error, console>>
           ELSE End(Append(trace, Fail("changeResourceRecordSets")),
                    pending \ {"changeResourceRecordSets"}, "failed", "ApiError", console)
    /\ UNCHANGED <<task, tags, eniId, taskPublicIp>>

updateDnsRecordFail == Rejected("updateDnsRecord", "changeResourceRecordSets")

Next ==
    \/ Invoke
    \/ fetchTagsOk
    \/ fetchTagsFail
    \/ fetchEniPublicIpOk
    \/ fetchEniPublicIpFail
    \/ describeContainerInstancesOk
    \/ describeContainerInstancesFail
    \/ fetchEC2PublicIpOk
    \/ fetchEC2PublicIpFail
    \/ updateDnsRecordOk
    \/ updateDnsRecordFail

Spec == Init /\ [][Next]_vars

\* every issued remote call is eventually answered, with a response or a failure
FairSpec == Init /\ [][Next]_vars /\ WF_vars(Next)

---------------------------------------------------------------------------
(* getEniId on its own, over every attachment list within the bounds.  A   *)
(* task without an attachments property behaves as one with an empty list: *)
(* _.chain(undefined).filter(...) is empty.                                *)

InitEni ==
    /\ task \in [clusterArn : {ClusterArn}, taskArn : {TaskArn}, group : {Group},
                  attachments : AttachmentLists, containerInstanceArn : {Undefined}]
    /\ pc = "init"
    /\ outcome = "running"
    /\ error = "none"
    /\ trace = <<>>
    /\ pending = {}
    /\ tags = EmptyHash
    /\ eniId = Undefined
    /\ taskPublicIp = Undefined
    /\ console = <<>>

\* line 36
getEniIdStep ==
    /\ pc = "init"
    /\ eniId' = getEniId(task)
    /\ pc' = "gotEniId"
    /\ UNCHANGED <<task, outcome, error, trace, pending, tags, taskPublicIp, console>>

SpecEni == InitEni /\ [][getEniIdStep]_vars

---------------------------------------------------------------------------
(* What the trace of remote calls shows *)

Ops == {"listTagsForResource", "describeNetworkInterfaces", "describeContainerInstances",
        "describeInstances", "changeResourceRecordSets"}

CallIdx(op) == {i \in 1..Len(trace) : trace[i].kind = "call" /\ trace[i].op = op}

OkIdx(op) == {i \in 1..Len(trace) : trace[i].kind = "ok" /\ trace[i].op = op}

FailIdx == {i \in 1..Len(trace) : trace[i].kind = "fail"}

Called(op) == CallIdx(op) # {}

NumCalls == Cardinality({i \in 1..Len(trace) : trace[i].kind = "call"})

OkBefore(op, i) == \E j \in OkIdx(op) : j < i

\* the tag list the tag lookup returned, once it has
TagsFetched == OkIdx("listTagsForResource") # {}

FetchedList == trace[CHOOSE i \in OkIdx("listTagsForResource") : TRUE].data.tags

\* the value a tag list gives a key: that of the last tag with the key
TagValue(list, k) ==
    LET at == {i \in 1..Len(list) : list[i].key = k}
    IN  IF at = {} THEN Undefined
        ELSE list[CHOOSE i \in at : \A j \in at : j <= i].value

LacksTag(list, k) == TagValue(list, k) \in {Undefined, ""}

\* the task yields an ENI id: its first eni attachment has a networkInterfaceId
EniPositions(atts) == {i \in 1..Len(atts) : atts[i].type = "eni"}

FirstEni(atts) == atts[CHOOSE i \in EniPositions(atts) : \A j \in EniPositions(atts) : i <= j]

IdPositions(att) == {j \in 1..Len(att.details) : att.details[j].name = "networkInterfaceId"}

ExpectedEniId(atts) ==
    IF EniPositions(atts) = {} THEN Undefined
    ELSE LET att == FirstEni(atts)
         IN  IF IdPositions(att) = {} THEN Undefined
             ELSE att.details[CHOOSE j \in IdPositions(att) :
                                \A k \in IdPositions(att) : j <= k].value

YieldsEniId == ExpectedEniId(task.attachments) # Undefined

HasContainerInstance == task.containerInstanceArn # Undefined

\* the four ways the address cannot be resolved
NoLookupPath == ~YieldsEniId /\ ~HasContainerInstance

NoEc2InstanceId ==
    \E i \in OkIdx("describeContainerInstances") :
        /\ ~IsNull(trace[i].data)
        /\ HasHead(trace[i].data.containerInstances)
        /\ trace[i].data.containerInstances[1].ec2InstanceId = Undefined

NoPublicIpAddress ==
    \E i \in OkIdx("describeInstances") :
        /\ ~IsNull(trace[i].data)
        /\ HasHead(trace[i].data.Reservations)
        /\ trace[i].data.Reservations[1].Instances[1].PublicIpAddress = Undefined

NoAssociation ==
    \E i \in OkIdx("describeNetworkInterfaces") :
        ~Has(trace[i].data.NetworkInterfaces[1].PrivateIpAddresses[1], "Association")

IpUnresolvable == NoLookupPath \/ NoEc2InstanceId \/ NoPublicIpAddress \/ NoAssociation

---------------------------------------------------------------------------
(* The claims *)

\* C1: when the IP address cannot be resolved (no ENI id and no
\* containerInstanceArn, a container instance without ec2InstanceId, an EC2
\* instance without PublicIpAddress, an ENI without a public-IP association), no
\* DNS upsert is ever submitted.
C1_NoUpsertWhenIpUnresolvable ==
    IpUnresolvable => ~Called("changeResourceRecordSets")

\* C2: when the fetched tag map lacks a non-empty domain tag or a non-empty
\* hostedZoneId tag, the invocation returns normally right after the tag lookup,
\* and listTagsForResource is the only remote call issued.
C2_MissingTagsSkip ==
    (TagsFetched /\ (LacksTag(FetchedList, "domain") \/ LacksTag(FetchedList, "hostedZoneId")))
        => /\ pc = "done"
           /\ outcome = "skipped"
           /\ error = "none"
           /\ Len(trace) = 2
           /\ \A op \in Ops \ {"listTagsForResource"} : ~Called(op)

C2_Witness ==
    /\ pc = "done"
    /\ outcome = "skipped"
    /\ TagsFetched
    /\ ~LacksTag(FetchedList, "domain")
    /\ LacksTag(FetchedList, "hostedZoneId")
    /\ YieldsEniId

\* C3: when every remote call succeeds but the IP address is unresolvable, the
\* invocation ends in a normal return and never in a propagated exception.
C3_UnresolvableReturnsNormally ==
    (pc = "done" /\ FailIdx = {} /\ IpUnresolvable) => outcome # "failed"

\* what the lookup whose answer precedes trace[i] returned to the handler
LookupReturned(i) ==
    LET answer == trace[i - 1]
    IN  IF answer.op = "describeNetworkInterfaces"
        THEN answer.data.NetworkInterfaces[1].PrivateIpAddresses[1].Association.PublicIp
        ELSE IF IsNull(answer.data) THEN Undefined
        ELSE answer.data.Reservations[1].Instances[1].PublicIpAddress

\* C4: every DNS change submitted carries the hostedZoneId tag as HostedZoneId and
\* exactly one change: an UPSERT of an A record named by the domain tag, with TTL
\* 180 and a single resource record whose value is what the lookup path taken in
\* this invocation returned.
C4_UpsertRequest ==
    \A i \in CallIdx("changeResourceRecordSets") :
        /\ i > 1
        /\ trace[i - 1].kind = "ok"
        /\ trace[i - 1].op \in {"describeNetworkInterfaces", "describeInstances"}
        /\ TagsFetched
        /\ trace[i].data.HostedZoneId = TagValue(FetchedList, "hostedZoneId")
        /\ trace[i].data.ChangeBatch.Changes =
            <<[Action |-> "UPSERT",
               ResourceRecordSet |->
                  [Name |-> TagValue(FetchedList, "domain"),
                   Type |-> "A",
                   TTL |-> 180,
                   ResourceRecords |-> <<[Value |-> LookupReturned(i)]>>]]>>

C4_Witness ==
    \E i \in CallIdx("changeResourceRecordSets") :
        /\ trace[i - 1].op = "describeInstances"
        /\ trace[i].data.HostedZoneId = "Z0123456789"
        /\ trace[i].data.ChangeBatch.Changes[1].ResourceRecordSet.Name = "app.example.com"
        /\ trace[i].data.ChangeBatch.Changes[1].ResourceRecordSet.ResourceRecords[1].Value
            = "198.51.100.7"

\* C5: a failure of any remote call is not caught: it is the last thing the
\* invocation sees, the invocation has ended as failed, and no remote call is
\* issued after it.
C5_FailurePropagates ==
    \A i \in FailIdx :
        /\ i = Len(trace)
        /\ trace[i - 1] = Call(trace[i].op, trace[i - 1].data)
        /\ pc = "done"
        /\ outcome = "failed"
        /\ error = "ApiError"
        /\ pending = {}

C5_Witness ==
    /\ \E i \in FailIdx : trace[i].op = "describeInstances"
    /\ outcome = "failed"
    /\ ~Called("changeResourceRecordSets")

\* C6: the remote calls are strictly sequential and dependent: at most one is
\* outstanding, each call but the first is issued on the successful answer to the
\* one before, the tag lookup is answered before any IP lookup starts,
\* describeContainerInstances is answered before describeInstances starts, and
\* the DNS upsert is issued only after the tag lookup and the IP lookup of the
\* chosen path have succeeded.
C6_Sequential ==
    /\ Cardinality(pending) <= 1
    /\ \A i \in 1..Len(trace) :
        (i % 2 = 1) = (trace[i].kind = "call")
    /\ \A i \in 1..Len(trace) :
        trace[i].kind # "call" => trace[i].op = trace[i - 1].op
    /\ \A i \in 2..Len(trace) :
        trace[i].kind = "call" => trace[i - 1].kind = "ok"
    /\ \A op \in {"describeNetworkInterfaces", "describeContainerInstances", "describeInstances"} :
        \A i \in CallIdx(op) : OkBefore("listTagsForResource", i)
    /\ \A i \in CallIdx("describeInstances") : OkBefore("describeContainerInstances", i)
    /\ \A i \in CallIdx("changeResourceRecordSets") :
        /\ OkBefore("listTagsForResource", i)
        /\ \/ OkBefore("describeNetworkInterfaces", i)
           \/ OkBefore("describeContainerInstances", i) /\ OkBefore("describeInstances", i)

C6_Witness ==
    /\ pending = {"changeResourceRecordSets"}
    /\ OkIdx("describeContainerInstances") # {}
    /\ OkIdx("describeInstances") # {}

\* C7: each remote operation is issued at most once in an invocation: there are
\* no retries, and at most one DNS upsert is submitted.
C7_AtMostOnce ==
    \A op \in Ops : Cardinality(CallIdx(op)) <= 1

C7_Witness ==
    /\ pc = "done"
    /\ outcome = "failed"
    /\ \E i \in FailIdx : trace[i].op = "changeResourceRecordSets"
    /\ Cardinality(CallIdx("changeResourceRecordSets")) = 1

\* C8: the address is looked up on one path only: describeNetworkInterfaces is
\* used only when the task yields an ENI id, and when it does (also with
\* containerInstanceArn present) nothing of the container-instance path is; the
\* container-instance path is used only when there is no ENI id and
\* containerInstanceArn is present; the two are never used together.
C8_OnePath ==
    /\ Called("describeNetworkInterfaces") => YieldsEniId
    /\ YieldsEniId => ~Called("describeContainerInstances") /\ ~Called("describeInstances")
    /\ Called("describeContainerInstances") => ~YieldsEniId /\ HasContainerInstance
    /\ Called("describeInstances") => Called("describeContainerInstances")
    /\ ~(Called("describeNetworkInterfaces") /\ Called("describeContainerInstances"))
    /\ \A i \in CallIdx("describeNetworkInterfaces") :
        trace[i].data.NetworkInterfaceIds = <<ExpectedEniId(task.attachments)>>

C8_Witness ==
    /\ YieldsEniId
    /\ HasContainerInstance
    /\ Called("describeNetworkInterfaces")
    /\ pc = "done"
    /\ outcome = "updated"

\* C9: every invocation terminates: given that each issued call is answered, the
\* handler reaches a terminal outcome (skipped, updated or failed), it has issued
\* at most four remote calls, and it issues none after reaching the outcome.
C9_Terminates ==
    /\ <>(pc = "done")
    /\ [](pc = "done" <=> outcome \in {"skipped", "updated", "failed"})
    /\ [](pc = "done" => pending = {})
    /\ [](NumCalls <= 4)
    /\ [][pc = "done" => trace' = trace]_vars

C9_Witness ==
    /\ pc = "done"
    /\ NumCalls = 4
    /\ outcome = "updated"

\* C10: getEniId returns the value of the first networkInterfaceId detail of the
\* first attachment of type eni, and undefined when there is no attachment, no eni
\* attachment, or no such detail in that first eni attachment: later eni
\* attachments are never consulted.
C10_GetEniId ==
    pc = "gotEniId" => eniId = ExpectedEniId(task.attachments)

C10_Witness ==
    /\ pc = "gotEniId"
    /\ eniId = Undefined
    /\ Cardinality(EniPositions(task.attachments)) = 2
    /\ IdPositions(task.attachments[1]) = {}
    /\ IdPositions(task.attachments[2]) # {}

====
